---- MODULE Spec2Model ----
(***************************************************************************)
(* Model of the polopt_carbon coefficient pipeline: the cross-tabulation   *)
(* of land-cover codes against carbon zones, the fallback rule engine of   *)
(* rules.py, the per-class aggregator and the expert override layer of     *)
(* compute(), and compute() as a whole from the clipping of the zones to   *)
(* the density raster and the written table.  Data frames are sequences of *)
(* records (one record per row, one field per column); floats are exact    *)
(* rationals <<n, d>>, with NaN the pair <<0, 0>> and +inf the pair        *)
(* <<1, 0>>; an absent string cell is the string "nan".                    *)
(***************************************************************************)
EXTENDS Integers, Sequences, FiniteSets, TLC

VARIABLES
    pc,         \* position inside compute() / apply_fallback_rules()
    variant,    \* which compute() of the repository runs
    lulc_arr,   \* land-cover grid, flattened: cell -> code
    cz_raster,  \* zone-id grid, flattened: cell -> zone id (0 = no zone)
    df_out,     \* the cross-tab / coefficient table
    config,     \* the rule configuration handed to apply_fallback_rules
    method,     \* aggregation method string
    invest,     \* the aggregator's per-code table
    full,       \* the 17-row table
    expert,     \* the expert override file as read by pd.read_csv
    warnings,   \* warnings logged so far
    error,      \* the exception that ended the run, or "none"
    written,    \* the table written to invest_table_out, <<>> while unwritten
    gdf_zones,      \* the zone polygons as read, one record per polygon
    gdf_boundary,   \* the boundary geometry: the cells it covers
    gdf_zones_clip, \* the clipped zone collection
    attrs,          \* the zone attribute table keyed by CZ_ID
    lut,            \* the coefficient lookup as read by read_coeff_lookup
    lulc_transform, \* <<a, e>>: pixel width and height of the grid, in metres
    carbon_arr,     \* the density raster, flattened: cell -> value
    nodata,         \* the no-data value declared for the density raster
    rasters,        \* the density rasters of the runs already finished
    df_overlay,     \* the overlay table of core_with_comments.py, a set of rows
    files,          \* the output files compute() has written so far
    cli             \* the run command: its options, its paths and its outcome

\* the state of the overlay inputs and of the density painter
geo == <<gdf_zones, gdf_boundary, gdf_zones_clip, attrs, lut, lulc_transform,
         carbon_arr, nodata, rasters, df_overlay, cli>>

vars == <<pc, variant, lulc_arr, cz_raster, df_out, config, method, invest,
          full, expert, warnings, error, written, geo, files>>

----------------------------------------------------------------------------
(* Bounds of the model.                                                    *)

MaxRows == 3
MaxZone == 2
NumCells == 3
MaxOverrides == 2

----------------------------------------------------------------------------
(* Floats.                                                                 *)

NaN == <<0, 0>>
Inf == <<1, 0>>
Rat(n) == <<n, 1>>

isna(x) == x = NaN
notna(x) == x # NaN

RECURSIVE GCD(_, _)
GCD(a, b) == IF b = 0 THEN a ELSE GCD(b, a % b)

Abs(n) == IF n < 0 THEN -n ELSE n

Norm(n, d) == LET g == GCD(Abs(n), d) IN <<n \div g, d \div g>>

FAdd(x, y) ==
    IF isna(x) \/ isna(y) THEN NaN
    ELSE IF x[2] = 0 \/ y[2] = 0 THEN Inf
    ELSE Norm(x[1] * y[2] + y[1] * x[2], x[2] * y[2])

FMul(x, y) ==
    IF isna(x) \/ isna(y) THEN NaN
    ELSE IF x[2] = 0 \/ y[2] = 0
         THEN (IF x[1] = 0 \/ y[1] = 0 THEN NaN ELSE Inf)
    ELSE Norm(x[1] * y[1], x[2] * y[2])

\* numpy float division: 0/0 is NaN, x/0 is inf, no exception is raised
FDiv(x, y) ==
    IF isna(x) \/ isna(y) THEN NaN
    ELSE IF y[1] = 0 THEN (IF x[1] = 0 THEN NaN ELSE Inf)
    ELSE IF x[2] = 0 THEN Inf
    ELSE Norm(x[1] * y[2], x[2] * y[1])

----------------------------------------------------------------------------
(* Data-frame helpers.                                                     *)

\* df[c] = v for one row: the column is added when the row lacks it
SetCol(row, c, v) ==
    [f \in DOMAIN row \cup {c} |-> IF f = c THEN v ELSE row[f]]

RECURSIVE SumOver(_, _, _)
\* Series.sum() of column c, NaN skipped
SumOver(df, c, i) ==
    IF i = 0 THEN Rat(0)
    ELSE IF isna(df[i][c]) THEN SumOver(df, c, i - 1)
    ELSE FAdd(SumOver(df, c, i - 1), df[i][c])

RECURSIVE CountOver(_, _, _)
CountOver(df, c, i) ==
    IF i = 0 THEN 0
    ELSE CountOver(df, c, i - 1) + (IF isna(df[i][c]) THEN 0 ELSE 1)

\* Series.mean(): NaN skipped, NaN when nothing is left
Mean(df, c) ==
    IF CountOver(df, c, Len(df)) = 0 THEN NaN
    ELSE FDiv(SumOver(df, c, Len(df)), Rat(CountOver(df, c, Len(df))))

----------------------------------------------------------------------------
(* rules.py: apply_fallback_rules.                                         *)

ForestCodes == {1, 2, 3, 4}
ShrubCodes == {6, 7}
SavannaCodes == {8, 9}
WetlandCode == 11

\* f"savanna={frac * 100:.0f}%_forest"
SavannaTag(frac) ==
    "savanna=" \o ToString((frac[1] * 100) \div frac[2]) \o "%_forest"

\* the default of apply_fallback_rules and the rules_cfg of compute()
DefaultConfig == [
    has_savanna |-> TRUE,
    savanna_percent_of_forest |-> <<2, 5>>,
    wetland_woody_equals_forest |-> TRUE,
    marsh_equals_shrub |-> TRUE,
    force_wetland_overrides |-> FALSE ]

PrepareColumns_KeepExisting(df) ==
    [i \in 1..Len(df) |->
        SetCol(IF "CARBON_VALUE_ADJ" \in DOMAIN df[i]
               THEN df[i]
               ELSE SetCol(df[i], "CARBON_VALUE_ADJ", df[i].CARBON_VALUE),
               "rule_applied", "None")]

\* df["CARBON_VALUE_ADJ"] = df["CARBON_VALUE"]; df["rule_applied"] = None
PrepareColumns(df) ==
    [i \in 1..Len(df) |->
        SetCol(SetCol(df[i], "CARBON_VALUE_ADJ", df[i].CARBON_VALUE),
               "rule_applied", "None")]

\* df.loc[df["LULC"].isin(codes), "CARBON_VALUE"].mean()
RefValue(df, codes) ==
    Mean(SelectSeq(df, LAMBDA r : r.LULC \in codes), "CARBON_VALUE")

MissingIn_AnyRow(row, codes) == row.LULC \in codes

\* df["LULC"].isin(codes) & df["CARBON_VALUE_ADJ"].isna()
MissingIn(row, codes) == row.LULC \in codes /\ isna(row.CARBON_VALUE_ADJ)

FillMasked_ValueOnly(df, codes, value, tag) ==
    [i \in 1..Len(df) |->
        IF MissingIn(df[i], codes)
        THEN [df[i] EXCEPT !.CARBON_VALUE_ADJ = value]
        ELSE df[i]]

\* df.loc[mask, "CARBON_VALUE_ADJ"] = value; df.loc[mask, "rule_applied"] = tag
FillMasked(df, codes, value, tag) ==
    [i \in 1..Len(df) |->
        IF MissingIn(df[i], codes)
        THEN [df[i] EXCEPT !.CARBON_VALUE_ADJ = value, !.rule_applied = tag]
        ELSE df[i]]

SavannaRule_NoRefTest(df, cfg, forest_ref) ==
    IF cfg.has_savanna
    THEN FillMasked(df, SavannaCodes,
                    FMul(forest_ref, cfg.savanna_percent_of_forest),
                    SavannaTag(cfg.savanna_percent_of_forest))
    ELSE df

\* rule 1: savannas (8, 9) = fraction of forest, if missing
SavannaRule(df, cfg, forest_ref) ==
    IF notna(forest_ref) /\ cfg.has_savanna
    THEN FillMasked(df, SavannaCodes,
                    FMul(forest_ref, cfg.savanna_percent_of_forest),
                    SavannaTag(cfg.savanna_percent_of_forest))
    ELSE df

\* rule 2: woody wetlands (11) = forest value, if missing
WetlandForestRule(df, cfg, forest_ref) ==
    IF cfg.wetland_woody_equals_forest /\ notna(forest_ref)
    THEN FillMasked(df, {WetlandCode}, forest_ref, "wetland_woody=forest")
    ELSE df

MarshShrubRule_Overwrite(df, cfg, shrub_ref) ==
    IF cfg.marsh_equals_shrub /\ notna(shrub_ref)
    THEN [i \in 1..Len(df) |->
            IF df[i].LULC = WetlandCode /\ isna(df[i].CARBON_VALUE)
            THEN [df[i] EXCEPT !.CARBON_VALUE_ADJ = shrub_ref,
                               !.rule_applied = "wetland_to_shrub"]
            ELSE df[i]]
    ELSE df

\* rule 3: marsh (11) = shrub value, if still missing
MarshShrubRule(df, cfg, shrub_ref) ==
    IF cfg.marsh_equals_shrub /\ notna(shrub_ref)
    THEN FillMasked(df, {WetlandCode}, shrub_ref, "wetland_to_shrub")
    ELSE df

\* df["rule_applied"] = df["rule_applied"].fillna("none")
FinalizeTags(df) ==
    [i \in 1..Len(df) |->
        IF df[i].rule_applied = "None"
        THEN [df[i] EXCEPT !.rule_applied = "none"]
        ELSE df[i]]

apply_fallback_rules(df, cfg) ==
    LET prepared == PrepareColumns(df)
        forest_ref == RefValue(prepared, ForestCodes)
        shrub_ref == RefValue(prepared, ShrubCodes)
        r1 == SavannaRule(prepared, cfg, forest_ref)
        r2 == WetlandForestRule(r1, cfg, forest_ref)
        r3 == MarshShrubRule(r2, cfg, shrub_ref)
    IN  FinalizeTags(r3)

----------------------------------------------------------------------------
(* Tables the pipeline can hold: one row per (LULC, CZ_ID) pair, sorted by *)
(* LULC and then CZ_ID, as pd.crosstab(...).stack() and groupby leave it.  *)

PairLess(p, q) == p[1] < q[1] \/ (p[1] = q[1] /\ p[2] < q[2])

MinPair(S) == CHOOSE p \in S : \A q \in S \ {p} : PairLess(p, q)

RECURSIVE SortPairs(_)
SortPairs(S) ==
    IF S = {} THEN <<>> ELSE <<MinPair(S)>> \o SortPairs(S \ {MinPair(S)})

RECURSIVE SortInts(_)
SortInts(S) ==
    IF S = {} THEN <<>>
    ELSE LET m == CHOOSE x \in S : \A y \in S : x <= y
         IN  <<m>> \o SortInts(S \ {m})

RuleCodes == {1, 6, 8, 11}
TableZones == {1, 2}
RawValues == {NaN, Rat(100), Rat(200)}

\* a joined table, before apply_fallback_rules: pairs P, raw value v[p]
JoinedTable(P, cnt, v) ==
    LET ps == SortPairs(P)
    IN  [i \in 1..Len(ps) |->
            [LULC |-> ps[i][1], CZ_ID |-> ps[i][2], Count |-> cnt[ps[i]],
             CARBON_VALUE |-> v[ps[i]]]]

Configs ==
    [has_savanna : BOOLEAN,
     savanna_percent_of_forest : {<<2, 5>>},
     wetland_woody_equals_forest : BOOLEAN,
     marsh_equals_shrub : BOOLEAN,
     force_wetland_overrides : {FALSE}]

NoExpert == [present |-> FALSE, key_col |-> "lucode",
             val_col |-> "c_above_override", rows |-> <<>>]

NoLookup == [columns |-> {}, rows |-> <<>>]

\* compute() called directly, not through the run command
NoCli == [called |-> FALSE]

\* the overlay inputs and the painter's outputs before compute() touches them
NoGeo ==
    /\ gdf_zones = <<>> /\ gdf_boundary = {} /\ gdf_zones_clip = <<>>
    /\ attrs = <<>>
    /\ lut = NoLookup
    /\ lulc_transform = <<100, -100>>
    /\ carbon_arr = <<>> /\ nodata = NaN
    /\ rasters = <<>>
    /\ df_overlay = {}
    /\ files = {}
    /\ cli = NoCli

----------------------------------------------------------------------------
(* The fallback rule engine on its own: a joined table goes through        *)
(* apply_fallback_rules, and the result goes through it once more.         *)

InitRules ==
    /\ pc = "rules"
    /\ variant = "core_with_comments"
    /\ lulc_arr = <<>> /\ cz_raster = <<>>
    /\ config \in Configs
    /\ \E P \in SUBSET (RuleCodes \X TableZones) :
          /\ Cardinality(P) <= MaxRows
          /\ \E v \in [P -> RawValues] :
                df_out = JoinedTable(P, [p \in P |-> 1], v)
    /\ method = "dominant"
    /\ invest = <<>> /\ full = <<>> /\ written = <<>>
    /\ expert = NoExpert
    /\ warnings = {}
    /\ error = "none"
    /\ NoGeo

ApplyRules ==
    /\ pc = "rules"
    /\ df_out' = apply_fallback_rules(df_out, config)
    /\ pc' = "rules_done"
    /\ UNCHANGED <<geo, files, variant, lulc_arr, cz_raster, config, method, invest, full,
                   expert, warnings, error, written>>

ReapplyRules ==
    /\ pc = "rules_done"
    /\ df_out' = apply_fallback_rules(df_out, config)
    /\ pc' = "rules_twice"
    /\ UNCHANGED <<geo, files, variant, lulc_arr, cz_raster, config, method, invest, full,
                   expert, warnings, error, written>>

NextRules == ApplyRules \/ ReapplyRules

SpecRules == InitRules /\ [][NextRules]_vars

Filled(row) == isna(row.CARBON_VALUE) /\ notna(row.CARBON_VALUE_ADJ)

\* C2: apply_fallback_rules never overwrites a present value: after every
\* application each row keeps its raw value, and each row whose raw value is
\* present has adjusted value = raw value.
C2_PresentValuesKept ==
    [][pc' \in {"rules_done", "rules_twice"} =>
        /\ Len(df_out') = Len(df_out)
        /\ \A i \in 1..Len(df_out) :
              /\ df_out'[i].CARBON_VALUE = df_out[i].CARBON_VALUE
              /\ notna(df_out[i].CARBON_VALUE) =>
                    df_out'[i].CARBON_VALUE_ADJ = df_out[i].CARBON_VALUE]_vars

\* a run in which a rule filled one row while another savanna or wetland row
\* kept its present raw value
C2_Witness ==
    /\ pc = "rules_done"
    /\ \E i, j \in 1..Len(df_out) :
          /\ Filled(df_out[i])
          /\ df_out[j].LULC \in SavannaCodes \cup {WetlandCode}
          /\ notna(df_out[j].CARBON_VALUE)
          /\ df_out[j].CARBON_VALUE_ADJ = df_out[j].CARBON_VALUE
          /\ df_out[j].CARBON_VALUE_ADJ # df_out[i].CARBON_VALUE_ADJ

\* C3: apply_fallback_rules is idempotent: applied to its own output it
\* returns the same adjusted values and the same rule_applied tags, row by row.
C3_Idempotent ==
    [][pc = "rules_done" /\ pc' = "rules_twice" =>
        /\ Len(df_out') = Len(df_out)
        /\ \A i \in 1..Len(df_out) :
              /\ df_out'[i].CARBON_VALUE_ADJ = df_out[i].CARBON_VALUE_ADJ
              /\ df_out'[i].rule_applied = df_out[i].rule_applied]_vars

\* the second application has run on a table in which the first one filled a
\* row and tagged it
C3_Witness ==
    /\ pc = "rules_twice"
    /\ \E i \in 1..Len(df_out) :
          Filled(df_out[i]) /\ df_out[i].rule_applied # "none"

----------------------------------------------------------------------------
(* compute(), step "Cross-tabulate LULC x Zone".                           *)

Variants == {"core_with_comments", "core_after_gemini"}

Cells == 1..NumCells
\* the no-data value of a uint8 land-cover raster; src.read(1) returns the
\* cells that hold it as they are, unmasked
NoDataSentinel == 255
CellValues == {Rat(1), Rat(2), Rat(NoDataSentinel), NaN}

\* ndarray.astype(int) of a float that is not NaN
AsInt(x) == x[1] \div x[2]

InMask_NoZoneTest(lulc, cz, i) == notna(lulc[i])

\* mask = (cz_raster > 0) & (~np.isnan(lulc_arr))
InMask(lulc, cz, i) == cz[i] > 0 /\ notna(lulc[i])

\* the (LULC, CZ_ID) pairs of lulc_arr[mask].astype(int), cz_raster[mask]
MaskedCells(lulc, cz) == {i \in DOMAIN lulc : InMask(lulc, cz, i)}

PairCount(lulc, cz, l, z) ==
    Cardinality({i \in MaskedCells(lulc, cz) : AsInt(lulc[i]) = l /\ cz[i] = z})

\* pd.crosstab(lulc_flat, cz_flat).stack().reset_index(): one row per observed
\* code and observed zone, the pairs never seen together with Count 0
CrossTabStack(lulc, cz) ==
    LET codes == {AsInt(lulc[i]) : i \in MaskedCells(lulc, cz)}
        zones == {cz[i] : i \in MaskedCells(lulc, cz)}
        ps == SortPairs(codes \X zones)
    IN  [k \in 1..Len(ps) |->
            [LULC |-> ps[k][1], CZ_ID |-> ps[k][2],
             Count |-> PairCount(lulc, cz, ps[k][1], ps[k][2])]]

\* df_out.groupby(["LULC", "CZ_ID"]).size().reset_index(name="Count"): one
\* row per observed pair
GroupBySize(lulc, cz) ==
    LET ps == SortPairs({<<AsInt(lulc[i]), cz[i]>> : i \in MaskedCells(lulc, cz)})
    IN  [k \in 1..Len(ps) |->
            [LULC |-> ps[k][1], CZ_ID |-> ps[k][2],
             Count |-> PairCount(lulc, cz, ps[k][1], ps[k][2])]]

InitOverlay ==
    /\ pc = "crosstab"
    /\ variant \in Variants
    /\ lulc_arr \in [Cells -> CellValues]
    /\ cz_raster \in [Cells -> 0..MaxZone]
    /\ df_out = <<>>
    /\ config = DefaultConfig
    /\ method = "dominant"
    /\ invest = <<>> /\ full = <<>> /\ written = <<>>
    /\ expert = NoExpert
    /\ warnings = {}
    /\ error = "none"
    /\ NoGeo

CrossTab ==
    /\ pc = "crosstab"
    /\ df_out' = IF variant \in {"core_after_gemini", "core_gemini_works"}
                 THEN GroupBySize(lulc_arr, cz_raster)
                 ELSE CrossTabStack(lulc_arr, cz_raster)
    /\ pc' = "join_attrs"
    /\ UNCHANGED <<geo, files, variant, lulc_arr, cz_raster, config, method, invest, full,
                   expert, warnings, error, written>>

NextOverlay == CrossTab

SpecOverlay == InitOverlay /\ [][NextOverlay]_vars

RECURSIVE CountSum(_, _, _)
\* sum of Count over the first i rows of df that hold land-cover code c
CountSum(df, c, i) ==
    IF i = 0 THEN 0
    ELSE CountSum(df, c, i - 1) + (IF df[i].LULC = c THEN df[i].Count ELSE 0)

----------------------------------------------------------------------------
(* compute(), steps "Aggregate to per-LULC coefficients", "Apply expert    *)
(* overrides" and "Write outputs".                                         *)

NumClasses == 17

\* str.lower() on the method strings of the model
Lower(m) == IF m = "Weighted" THEN "weighted" ELSE m

LulcCodes(df) == {df[i].LULC : i \in 1..Len(df)}

IdxMax_Last(df, c) ==
    CHOOSE i \in 1..Len(df) :
        /\ df[i].LULC = c
        /\ \A j \in 1..Len(df) : df[j].LULC = c => df[j].Count <= df[i].Count
        /\ \A j \in (i + 1)..Len(df) : df[j].LULC = c => df[j].Count < df[i].Count

\* df_out.groupby("LULC")["w"].idxmax(), for the group of code c: the label of
\* the first row of the group that holds the greatest value
IdxMax(df, c) ==
    CHOOSE i \in 1..Len(df) :
        /\ df[i].LULC = c
        /\ \A j \in 1..Len(df) : df[j].LULC = c => df[j].Count <= df[i].Count
        /\ \A j \in 1..(i - 1) : df[j].LULC = c => df[j].Count < df[i].Count

\* invest = df_out.loc[idx, ["LULC", base_col]].rename(...)
DominantInvest(df, base_col) ==
    LET cs == SortInts(LulcCodes(df))
    IN  [k \in 1..Len(cs) |->
            [lucode |-> cs[k], c_above |-> df[IdxMax(df, cs[k])][base_col]]]

DropNa_KeepAll(df, col) == df

\* df_out.dropna(subset=[base_col])
DropNa(df, col) == SelectSeq(df, LAMBDA r : notna(r[col]))

\* .assign(wcv=lambda d: d["w"] * d[base_col])
AssignWcv(df, base_col) ==
    [i \in 1..Len(df) |->
        SetCol(SetCol(df[i], "w", Rat(df[i].Count)),
               "wcv", FMul(Rat(df[i].Count), df[i][base_col]))]

\* .groupby("LULC").agg(total_w=("w", "sum"), total_wcv=("wcv", "sum")) and
\* weighted["c_above"] = weighted["total_wcv"] / weighted["total_w"]
WeightedInvest(df, base_col) ==
    LET kept == AssignWcv(DropNa(df, base_col), base_col)
        cs == SortInts(LulcCodes(kept))
        grp(c) == SelectSeq(kept, LAMBDA r : r.LULC = c)
    IN  [k \in 1..Len(cs) |->
            [lucode |-> cs[k],
             c_above |-> FDiv(SumOver(grp(cs[k]), "wcv", Len(grp(cs[k]))),
                              SumOver(grp(cs[k]), "w", Len(grp(cs[k]))))]]

\* one left row joined to its matches in right: DataFrame.merge(how="left")
MergeOne(l, right, on, cols) ==
    LET ms == SelectSeq(right, LAMBDA r : r[on] = l[on])
    IN  IF ms = <<>>
        THEN <<[f \in DOMAIN l \cup cols |-> IF f \in DOMAIN l THEN l[f] ELSE NaN]>>
        ELSE [j \in 1..Len(ms) |->
                [f \in DOMAIN l \cup cols |->
                    IF f \in DOMAIN l THEN l[f] ELSE ms[j][f]]]

RECURSIVE MergeLeft(_, _, _, _, _)
\* left[1..i].merge(right, on=on, how="left"); cols are right's other columns
MergeLeft(left, right, on, cols, i) ==
    IF i = 0 THEN <<>>
    ELSE MergeLeft(left, right, on, cols, i - 1) \o MergeOne(left[i], right, on, cols)

FillNa_Nothing(df, col) == df

\* .fillna({"c_above": 0.0})
FillNa(df, col) ==
    [i \in 1..Len(df) |->
        IF isna(df[i][col]) THEN [df[i] EXCEPT ![col] = Rat(0)] ELSE df[i]]

\* the tables the last step writes: the 17-row table, and in
\* core_after_gemini.py the coefficient table before it
OutputTables(var) ==
    IF var = "core_after_gemini" THEN {"out", "invest_table"} ELSE {"invest_table"}

\* pd.DataFrame({"lucode": list(range(1, 18))})
LucodeFrame == [c \in 1..NumClasses |-> [lucode |-> c]]

\* full = LucodeFrame.merge(invest, on="lucode", how="left").fillna(...)
FullTable(inv) ==
    FillNa(MergeLeft(LucodeFrame, inv, "lucode", {"c_above"}, NumClasses),
           "c_above")

\* the rows of the expert file as a data frame with the file's own headers
ExpertFrame(e) ==
    [i \in 1..Len(e.rows) |->
        [f \in {e.key_col, e.val_col} |->
            IF f = e.key_col THEN e.rows[i][1] ELSE e.rows[i][2]]]

ExpertColumns(e) == {e.key_col, e.val_col}

CombineFirst_AggregatedFirst(df) ==
    [i \in 1..Len(df) |->
        IF isna(df[i].c_above)
        THEN [df[i] EXCEPT !.c_above = df[i].c_above_override]
        ELSE df[i]]

\* full["c_above"] = full["c_above_override"].combine_first(full["c_above"])
CombineFirst(df) ==
    [i \in 1..Len(df) |->
        IF notna(df[i].c_above_override)
        THEN [df[i] EXCEPT !.c_above = df[i].c_above_override]
        ELSE df[i]]

\* full.drop(columns=["c_above_override"], inplace=True)
DropOverrideColumn(df) ==
    [i \in 1..Len(df) |-> [f \in DOMAIN df[i] \ {"c_above_override"} |-> df[i][f]]]

MissingColumnsWarning ==
    "Expert file missing required columns ('lucode', 'c_above_override')."

\* compute() takes a method, or always aggregates by weighted mean (core.py,
\* core_that_works.py)
HasMethod(var) == var \notin {"core", "core_that_works"}

Aggregate ==
    /\ pc = "aggregate"
    /\ IF HasMethod(variant) /\ Lower(method) = "dominant"
       THEN /\ invest' = DominantInvest(df_out, "CARBON_VALUE_ADJ")
            /\ pc' = "fill"
            /\ error' = error
       ELSE IF \/ Lower(method) = "weighted" \/ variant = "core_after_gemini"
               \/ ~HasMethod(variant)
       THEN /\ invest' = WeightedInvest(df_out, "CARBON_VALUE_ADJ")
            /\ pc' = "fill"
            /\ error' = error
       ELSE /\ invest' = invest
            /\ pc' = "failed"
            /\ error' = "ValueError: Invalid method. Use 'dominant' or 'weighted'."
    /\ UNCHANGED <<geo, files, variant, lulc_arr, cz_raster, df_out, config, method, full,
                   expert, warnings, written>>

FillDefaults ==
    /\ pc = "fill"
    /\ full' = FullTable(invest)
    /\ pc' = "override"
    /\ UNCHANGED <<geo, files, variant, lulc_arr, cz_raster, df_out, config, method, invest,
                   expert, warnings, error, written>>

ExpertOverride ==
    /\ pc = "override"
    /\ IF ~expert.present
       THEN /\ pc' = "write"
            /\ UNCHANGED <<full, warnings, error>>
       ELSE IF variant = "core_with_comments"
       THEN /\ pc' = "write"
            /\ error' = error
            /\ IF {"lucode", "c_above_override"} \subseteq ExpertColumns(expert)
               THEN /\ full' = DropOverrideColumn(CombineFirst(
                                  MergeLeft(full, ExpertFrame(expert), "lucode",
                                            {"c_above_override"}, Len(full))))
                    /\ warnings' = warnings
               ELSE /\ full' = full
                    /\ warnings' = warnings \cup {MissingColumnsWarning}
       ELSE /\ warnings' = warnings
            /\ IF "lucode" \notin ExpertColumns(expert)
               THEN /\ pc' = "failed"
                    /\ error' = "KeyError: 'lucode'"
                    /\ full' = full
               ELSE LET merged == MergeLeft(full, ExpertFrame(expert), "lucode",
                                            {expert.val_col}, Len(full))
                    IN  /\ pc' = "write"
                        /\ error' = error
                        /\ full' = IF "c_above_override" \in ExpertColumns(expert)
                                   THEN CombineFirst(merged)
                                   ELSE merged
    /\ UNCHANGED <<geo, files, variant, lulc_arr, cz_raster, df_out, config, method, invest,
                   expert, written>>

WriteOutputs ==
    /\ pc = "write"
    /\ written' = full
    /\ files' = files \cup OutputTables(variant)
    /\ pc' = "done"
    /\ UNCHANGED <<geo, variant, lulc_arr, cz_raster, df_out, config, method, invest,
                   full, expert, warnings, error>>

NextAggregate == Aggregate \/ FillDefaults \/ ExpertOverride \/ WriteOutputs

----------------------------------------------------------------------------
(* The aggregator and the override layer on their own: compute() from the  *)
(* table apply_fallback_rules returned to the written 17-row table.        *)

Methods == {"dominant", "weighted", "Weighted", "median"}

AggCodes == {3, 18}
AggCounts(c) == IF c \in 1..NumClasses THEN {0, 10, 30} ELSE {0, 10}
AggValues(c) == IF c \in 1..NumClasses THEN RawValues ELSE {NaN, Rat(100)}

\* the counts a cross-tabulation can produce over codes L and zones Z: every
\* code and every zone of the table was seen in some cell
CrossTabCounts(L, Z) ==
    {cnt \in [L \X Z -> {0, 10, 30}] :
        /\ \A p \in L \X Z : cnt[p] \in AggCounts(p[1])
        /\ \A l \in L : \E z \in Z : cnt[<<l, z>>] > 0
        /\ \A z \in Z : \E l \in L : cnt[<<l, z>>] > 0}

CrossTabValues(L, Z) ==
    {v \in [L \X Z -> RawValues] : \A p \in L \X Z : v[p] \in AggValues(p[1])}

\* the pairs that get a row: all of L x Z after crosstab().stack(), the
\* observed ones after groupby().size()
RowPairs(var, L, Z, cnt) ==
    IF var = "core_after_gemini" THEN {p \in L \X Z : cnt[p] > 0} ELSE L \X Z

OverrideCodes == {3, 9, 18}
\* an empty c_above_override cell is read as NaN
OverrideValues == {Rat(999), Rat(5), NaN}

RECURSIVE SeqsUpTo(_, _)
SeqsUpTo(S, n) ==
    IF n = 0 THEN {<<>>}
    ELSE SeqsUpTo(S, n - 1) \cup
         {Append(q, x) : q \in {r \in SeqsUpTo(S, n - 1) : Len(r) = n - 1}, x \in S}

ExpertFiles ==
    [present : {TRUE},
     key_col : {"lucode", "code"},
     val_col : {"c_above_override", "value"},
     rows : SeqsUpTo(OverrideCodes \X OverrideValues, MaxOverrides)]

\* runs without an expert file, over the tables of the aggregator's cases
InitManyTables ==
    /\ method \in Methods
    /\ expert = NoExpert
    /\ \E L \in SUBSET AggCodes, Z \in SUBSET TableZones :
          /\ (L = {}) = (Z = {})
          /\ \E cnt \in CrossTabCounts(L, Z), v \in CrossTabValues(L, Z) :
                df_out = apply_fallback_rules(
                            JoinedTable(RowPairs(variant, L, Z, cnt), cnt, v),
                            DefaultConfig)

\* runs with an expert file, over an empty table and one-row tables
InitManyExperts ==
    /\ method \in {"dominant", "weighted"}
    /\ expert \in ExpertFiles
    /\ \E P \in {{}, {<<3, 1>>}} :
          \E v \in [P -> {NaN, Rat(50)}] :
             df_out = apply_fallback_rules(
                         JoinedTable(P, [p \in P |-> 10], v), DefaultConfig)

InitAggregate ==
    /\ pc = "aggregate"
    /\ variant \in Variants
    /\ lulc_arr = <<>> /\ cz_raster = <<>>
    /\ config = DefaultConfig
    /\ invest = <<>> /\ full = <<>> /\ written = <<>>
    /\ warnings = {}
    /\ error = "none"
    /\ NoGeo
    /\ (InitManyTables \/ InitManyExperts)

SpecAggregate == InitAggregate /\ [][NextAggregate]_vars

Aggregated == pc \in {"fill", "override", "write", "done"}

Tabled == pc \in {"override", "write", "done"}

\* the rows of table t that hold code c
RowsOf(t, c) == {i \in 1..Len(t) : t[i].lucode = c}

Supported(c) == \E i \in 1..Len(df_out) : df_out[i].LULC = c

\* C4: the final coefficient table has exactly 17 rows, codes 1..17 each once
\* and in ascending order, for every input and every override collection.
C4_SeventeenRows ==
    Tabled =>
        /\ Len(full) = NumClasses
        /\ \A i \in 1..Len(full) : full[i].lucode = i
        /\ pc = "done" => Len(written) = NumClasses

RECURSIVE PresentCount(_, _, _)
\* sum of Count over the rows of code c, among the first i, whose value is present
PresentCount(df, c, i) ==
    IF i = 0 THEN 0
    ELSE PresentCount(df, c, i - 1) +
         (IF df[i].LULC = c /\ notna(df[i].CARBON_VALUE_ADJ) THEN df[i].Count ELSE 0)

RECURSIVE PresentMass(_, _, _)
\* sum of Count * value over the same rows (the values of the tables are whole)
PresentMass(df, c, i) ==
    IF i = 0 THEN 0
    ELSE PresentMass(df, c, i - 1) +
         (IF df[i].LULC = c /\ notna(df[i].CARBON_VALUE_ADJ)
          THEN df[i].Count * df[i].CARBON_VALUE_ADJ[1] ELSE 0)

WeightedRan == Aggregated /\ Lower(method) # "dominant"

\* C5: with the weighted strategy, every code with a present-valued row and
\* positive total count gets sum(count * value) / sum(count), both sums over
\* exactly the rows of the code whose value is present.
C5_WeightedMean ==
    WeightedRan =>
        \A c \in LulcCodes(df_out) :
            PresentCount(df_out, c, Len(df_out)) > 0 =>
                /\ Cardinality(RowsOf(invest, c)) = 1
                /\ \A k \in RowsOf(invest, c) :
                      /\ invest[k].c_above[2] > 0
                      /\ invest[k].c_above[1] * PresentCount(df_out, c, Len(df_out))
                            = PresentMass(df_out, c, Len(df_out)) * invest[k].c_above[2]
                /\ (pc = "override" /\ c \in 1..NumClasses) =>
                      \A k \in RowsOf(invest, c) : full[c].c_above = invest[k].c_above

\* counts {10, 30} with values {100, 200} give 175
C5_Witness ==
    /\ WeightedRan /\ pc = "override"
    /\ \E i, j \in 1..Len(df_out) :
          /\ df_out[i].LULC = 3 /\ df_out[i].Count = 10
          /\ df_out[i].CARBON_VALUE_ADJ = Rat(100)
          /\ df_out[j].LULC = 3 /\ df_out[j].Count = 30
          /\ df_out[j].CARBON_VALUE_ADJ = Rat(200)
    /\ full[3].c_above = Rat(175)

\* row i is the first row of its code that holds the code's greatest Count
FirstGreatest(df, i) ==
    /\ \A j \in 1..Len(df) : df[j].LULC = df[i].LULC => df[j].Count <= df[i].Count
    /\ \A j \in 1..(i - 1) : df[j].LULC = df[i].LULC => df[j].Count < df[i].Count

DominantRan == Aggregated /\ Lower(method) = "dominant"

\* C6: with the dominant strategy, the aggregated value of every code is the
\* adjusted value of the row of that code with the greatest pixel_count, the
\* first such row in input order when several share the greatest count.
C6_DominantRow ==
    DominantRan =>
        \A i \in 1..Len(df_out) :
            FirstGreatest(df_out, i) =>
                /\ Cardinality(RowsOf(invest, df_out[i].LULC)) = 1
                /\ \A k \in RowsOf(invest, df_out[i].LULC) :
                      invest[k].c_above = df_out[i].CARBON_VALUE_ADJ
                /\ (pc = "override" /\ df_out[i].LULC \in 1..NumClasses
                        /\ notna(df_out[i].CARBON_VALUE_ADJ)) =>
                      full[df_out[i].LULC].c_above = df_out[i].CARBON_VALUE_ADJ

\* a tie: two rows of code 3 with equal counts and different values, the
\* first row's value in the table
C6_Witness ==
    /\ DominantRan /\ pc = "override"
    /\ \E i, j \in 1..Len(df_out) :
          /\ i < j
          /\ df_out[i].LULC = 3 /\ df_out[j].LULC = 3
          /\ df_out[i].Count = df_out[j].Count
          /\ notna(df_out[i].CARBON_VALUE_ADJ) /\ notna(df_out[j].CARBON_VALUE_ADJ)
          /\ df_out[i].CARBON_VALUE_ADJ # df_out[j].CARBON_VALUE_ADJ
          /\ full[3].c_above = df_out[i].CARBON_VALUE_ADJ

\* C7: no value of the 17-row table is ever undefined, under either strategy:
\* a code whose rows all have absent values, or whose present-valued rows have
\* total weight zero, gets 0.0.
C7_NoUndefinedValue ==
    Tabled =>
        /\ \A i \in 1..Len(full) : notna(full[i].c_above)
        /\ \A i \in 1..Len(written) : notna(written[i].c_above)
        /\ pc = "override" =>
              \A c \in 1..NumClasses :
                  (Supported(c) /\ PresentCount(df_out, c, Len(df_out)) = 0) =>
                      full[c].c_above = Rat(0)

\* the weighted strategy on a code whose only present-valued row has Count 0
C7_Witness ==
    /\ pc = "done" /\ Lower(method) = "weighted"
    /\ \E i, j \in 1..Len(df_out) :
          /\ df_out[i].LULC = 3 /\ df_out[j].LULC = 3
          /\ notna(df_out[i].CARBON_VALUE_ADJ) /\ df_out[i].Count = 0
          /\ isna(df_out[j].CARBON_VALUE_ADJ) /\ df_out[j].Count > 0
    /\ written[3].c_above = Rat(0)

WellFormed(e) == e.key_col = "lucode" /\ e.val_col = "c_above_override"

EntriesFor(e, c) == {k \in 1..Len(e.rows) : e.rows[k][1] = c}

\* the value an override entry gives a row whose aggregated value is old: the
\* entry's value, or old when the entry's value cell is empty
Overridden(entry, old) == IF notna(entry[2]) THEN entry[2] ELSE old

\* C8: the override layer gives every code 1..17 of the override collection
\* its override value, defaulted or not, leaves every other code's value as
\* it was, and ignores an entry for a code that has no row in the table.
C8_OverrideWins ==
    [][(pc = "override" /\ expert.present /\ WellFormed(expert)) =>
        /\ pc' = "write"
        /\ \A k \in 1..Len(expert.rows) :
              expert.rows[k][1] \in 1..NumClasses =>
                  \E i \in RowsOf(full', expert.rows[k][1]) :
                      full'[i].c_above =
                          Overridden(expert.rows[k], full[full'[i].lucode].c_above)
        /\ \A i \in 1..Len(full') :
              /\ full'[i].lucode \in 1..NumClasses
              /\ IF EntriesFor(expert, full'[i].lucode) # {}
                 THEN \E k \in EntriesFor(expert, full'[i].lucode) :
                          full'[i].c_above =
                              Overridden(expert.rows[k], full[full'[i].lucode].c_above)
                 ELSE /\ Cardinality(RowsOf(full', full'[i].lucode)) = 1
                      /\ full'[i].c_above = full[full'[i].lucode].c_above]_vars

\* aggregated value 50 for code 3, overrides for code 3, for the defaulted
\* code 9 and for code 18, which has no row
C8_Witness ==
    /\ pc = "write" /\ expert.present /\ WellFormed(expert)
    /\ \E i \in 1..Len(df_out) :
          df_out[i].LULC = 3 /\ df_out[i].CARBON_VALUE_ADJ = Rat(50)
    /\ \E a, b \in 1..Len(expert.rows) :
          /\ expert.rows[a][1] = 3 /\ full[3].c_above = expert.rows[a][2]
          /\ expert.rows[b][1] = 9 /\ full[9].c_above = expert.rows[b][2]
          /\ notna(expert.rows[a][2]) /\ notna(expert.rows[b][2])
    /\ Len(full) = NumClasses
    /\ \A c \in 1..NumClasses \ {3, 9} : full[c].c_above = Rat(0)

\* the lucode and c_above columns of a table
TwoColumns(t) ==
    [i \in 1..Len(t) |-> [lucode |-> t[i].lucode, c_above |-> t[i].c_above]]

\* C9: when the override input lacks a required column the override stage is
\* skipped with a warning: the run completes without an error and the written
\* 17-row table holds the un-overridden aggregated values.
C9_MalformedSkipped ==
    (expert.present /\ ~WellFormed(expert)) =>
        /\ error = "none"
        /\ pc = "done" =>
              /\ MissingColumnsWarning \in warnings
              /\ TwoColumns(written) = FullTable(invest)

\* C10: every code 1..17 without a supporting row appears in the aggregated
\* output with value 0.0 and defaulted = true, and every code with a
\* supporting row has defaulted = false.
C10_DefaultedFlag ==
    Tabled =>
        \A c \in 1..NumClasses :
            \E i \in RowsOf(full, c) :
                /\ ~Supported(c) => full[i].c_above = Rat(0)
                /\ "defaulted" \in DOMAIN full[i]
                /\ full[i]["defaulted"] = ~Supported(c)

----------------------------------------------------------------------------
(* compute() from its inputs: the zone polygons, the boundary, the grid    *)
(* and the coefficient lookup.                                             *)

PipelineVariants ==
    {"core", "core_with_comments", "core_after_gemini", "core_gemini_works"}

\* the polygons of the zone file; the polygon at position k carries the
\* index label k - 1
NumPolygons == MaxZone + 1

GezTerms == <<"Tropical rainforest", "Tropical dry forest", "Water">>

\* REGION, GEZ_TERM, FRONTIER and CODE of the polygon with index label p
ZoneAttrs(p) ==
    [REGION |-> "Africa",
     GEZ_TERM |-> GezTerms[(p % Len(GezTerms)) + 1],
     FRONTIER |-> "Non-frontier",
     CODE |-> ToString(p)]

\* the zone collection in which the polygon at position k covers the cells c
\* with layout[c] = k (no two polygons overlap)
ZoneCollection(layout) ==
    [k \in 1..NumPolygons |->
        [index |-> k - 1,
         REGION |-> ZoneAttrs(k - 1).REGION,
         GEZ_TERM |-> ZoneAttrs(k - 1).GEZ_TERM,
         FRONTIER |-> ZoneAttrs(k - 1).FRONTIER,
         CODE |-> ZoneAttrs(k - 1).CODE,
         geometry |-> {c \in Cells : layout[c] = k}]]

\* gpd.clip(gdf_zones, gdf_boundary): the part of every polygon inside the
\* boundary, polygons left with nothing dropped, order and index labels kept
gpd_clip(gdf, boundary) ==
    SelectSeq([k \in 1..Len(gdf) |->
                  [gdf[k] EXCEPT !.geometry = gdf[k].geometry \cap boundary]],
              LAMBDA r : r.geometry # {})

\* .reset_index(drop=True)
reset_index(gdf) == [k \in 1..Len(gdf) |-> [gdf[k] EXCEPT !.index = k - 1]]

\* the value burned for the polygon at position k: gdf_zones_clip.index + 1 in
\* core.py, enumerate's idx + 1 in the other variants
ShapeValue(var, gdf, k) ==
    IF var = "core" THEN gdf[k].index + 1 ELSE (k - 1) + 1

\* features.rasterize(shapes, fill=0): every cell holds the value of the last
\* shape that covers it
features_rasterize(var, gdf) ==
    [c \in Cells |->
        LET ks == {k \in 1..Len(gdf) : c \in gdf[k].geometry}
        IN  IF ks = {} THEN 0
            ELSE ShapeValue(var, gdf, CHOOSE k \in ks : \A j \in ks : j <= k)]

NoShapesError == "ValueError: No valid geometry objects found for rasterize"

ClipZones ==
    /\ pc = "clip"
    /\ gdf_zones_clip' = IF variant = "core"
                         THEN gpd_clip(gdf_zones, gdf_boundary)
                         ELSE reset_index(gpd_clip(gdf_zones, gdf_boundary))
    /\ pc' = "rasterize"
    /\ UNCHANGED <<variant, lulc_arr, cz_raster, df_out, config, method, invest,
                   full, expert, warnings, error, written, gdf_zones,
                   gdf_boundary, attrs, lut, lulc_transform, carbon_arr,
                   nodata, rasters, df_overlay, files, cli>>

\* rasterio raises when it is handed no shape at all
Rasterize ==
    /\ pc = "rasterize"
    /\ IF gdf_zones_clip = <<>>
       THEN /\ pc' = "failed"
            /\ error' = NoShapesError
            /\ UNCHANGED cz_raster
       ELSE /\ pc' = "crosstab"
            /\ cz_raster' = features_rasterize(variant, gdf_zones_clip)
            /\ UNCHANGED error
    /\ UNCHANGED <<geo, files, variant, lulc_arr, df_out, config, method, invest,
                   full, expert, warnings, written>>

\* the rows l and r agree on the merge keys
KeyMatch(l, r, keys) == \A k \in keys : r[k] = l[k]

\* one left row joined on several keys to its matches in right; na gives the
\* cell a row without a match gets in each of right's other columns
MergeKeysOne(l, right, keys, na) ==
    LET ms == SelectSeq(right, LAMBDA r : KeyMatch(l, r, keys))
        cols == DOMAIN l \cup DOMAIN na
    IN  IF ms = <<>>
        THEN <<[f \in cols |-> IF f \in DOMAIN l THEN l[f] ELSE na[f]]>>
        ELSE [j \in 1..Len(ms) |->
                [f \in cols |-> IF f \in DOMAIN l THEN l[f] ELSE ms[j][f]]]

RECURSIVE MergeKeys(_, _, _, _, _)
\* left[1..i].merge(right, on=keys, how="left")
MergeKeys(left, right, keys, na, i) ==
    IF i = 0 THEN <<>>
    ELSE MergeKeys(left, right, keys, na, i - 1)
            \o MergeKeysOne(left[i], right, keys, na)

\* the zone attribute table: CZ_ID is the position in the clipped collection,
\* counted from 0 in core.py and made 1-based in the other variants
ZoneAttrTable(var, gdf) ==
    IF var = "core"
    THEN [k \in 1..Len(gdf) |->
            [CZ_ID |-> k - 1, REGION |-> gdf[k].REGION,
             GEZ_TERM |-> gdf[k].GEZ_TERM, FRONTIER |-> gdf[k].FRONTIER,
             CODE |-> gdf[k].CODE]]
    ELSE [k \in 1..Len(gdf) |->
            [CZ_ID |-> gdf[k].index + 1, REGION |-> gdf[k].REGION,
             GEZ_TERM |-> gdf[k].GEZ_TERM, FRONTIER |-> gdf[k].FRONTIER]]

NoZoneAttrs(var) ==
    IF var = "core"
    THEN [REGION |-> "nan", GEZ_TERM |-> "nan", FRONTIER |-> "nan", CODE |-> "nan"]
    ELSE [REGION |-> "nan", GEZ_TERM |-> "nan", FRONTIER |-> "nan"]

JoinAttrs ==
    /\ pc = "join_attrs"
    /\ attrs' = ZoneAttrTable(variant, gdf_zones_clip)
    /\ df_out' = MergeKeys(df_out, attrs', {"CZ_ID"}, NoZoneAttrs(variant),
                           Len(df_out))
    /\ pc' = "join_lookup"
    /\ UNCHANGED <<variant, lulc_arr, cz_raster, config, method, invest, full,
                   expert, warnings, error, written, gdf_zones, gdf_boundary,
                   gdf_zones_clip, lut, lulc_transform, carbon_arr, nodata,
                   rasters, df_overlay, files, cli>>

\* modis_glc_crosswalk.csv after the rename of "GLC2000 Class": the rows of
\* the land-cover codes the grids of the model hold
Crosswalk ==
    <<[LULC |-> 1, LULC_CLASS |-> "Evergreen Needleleaf Forests",
       GLC2000 |-> "4: Tree Cover, needle-leaved, evergreen"],
      [LULC |-> 8, LULC_CLASS |-> "Woody Savannas",
       GLC2000 |-> "12: Shrub Cover, closed-open, deciduous"],
      [LULC |-> 11, LULC_CLASS |-> "Permanent Wetlands",
       GLC2000 |-> "15: Regularly flooded shrub and/or herbaceous cover"],
      [LULC |-> 13, LULC_CLASS |-> "Urban and Built-up Lands",
       GLC2000 |-> "22: Artificial surfaces and associated areas"]>>

NoCrosswalk == [LULC_CLASS |-> "nan", GLC2000 |-> "nan"]

GLC2000Of(c) ==
    LET ms == SelectSeq(Crosswalk, LAMBDA r : r.LULC = c)
    IN  IF ms = <<>> THEN "nan" ELSE ms[1].GLC2000

UpperColumns == {"GLC2000", "REGION", "GEZ_TERM", "FRONTIER", "CARBON_VALUE"}
LowerColumns == {"LULC", "REGION", "GEZ_TERM", "FRONTIER", "carbon_value"}

\* a lookup file with the rows es = <<code, region, gez_term, value>>, under
\* the headers of rg_lookup_exploded.csv or under the headers core.py reads
LookupFile(columns, es) ==
    [columns |-> columns,
     rows |-> IF columns = UpperColumns
              THEN [i \in 1..Len(es) |->
                      [GLC2000 |-> GLC2000Of(es[i][1]), REGION |-> es[i][2],
                       GEZ_TERM |-> es[i][3], FRONTIER |-> "Non-frontier",
                       CARBON_VALUE |-> es[i][4]]]
              ELSE [i \in 1..Len(es) |->
                      [LULC |-> es[i][1], REGION |-> es[i][2],
                       GEZ_TERM |-> es[i][3], FRONTIER |-> "Non-frontier",
                       carbon_value |-> es[i][4]]]]

\* lut[cols]: the columns cols of every row
Project(df, cols) == [i \in 1..Len(df) |-> [f \in cols |-> df[i][f]]]

\* df_out["carbon_value"].isna().all()
AllNa(df, col) == \A i \in 1..Len(df) : isna(df[i][col])

\* df_out.drop(columns=[col])
DropColumn(df, col) ==
    [i \in 1..Len(df) |-> [f \in DOMAIN df[i] \ {col} |-> df[i][f]]]

CoreLookupJoin_AnyNa(df, lookup) ==
    LET semantic == MergeKeys(df, Project(lookup.rows, LowerColumns),
                              {"REGION", "GEZ_TERM", "FRONTIER", "LULC"},
                              [carbon_value |-> NaN], Len(df))
    IN  IF (\E i \in 1..Len(semantic) : isna(semantic[i].carbon_value))
        THEN MergeKeys(DropColumn(semantic, "carbon_value"),
                       Project(lookup.rows, {"LULC", "carbon_value"}),
                       {"LULC"}, [carbon_value |-> NaN], Len(semantic))
        ELSE semantic

\* core.py, step 6: the semantic join and, when it matched nothing and the
\* zones carry a CODE column, the join on LULC alone
CoreLookupJoin(df, lookup) ==
    LET semantic == MergeKeys(df, Project(lookup.rows, LowerColumns),
                              {"REGION", "GEZ_TERM", "FRONTIER", "LULC"},
                              [carbon_value |-> NaN], Len(df))
    IN  IF AllNa(semantic, "carbon_value") /\ \A i \in 1..Len(semantic) :
                                                  "CODE" \in DOMAIN semantic[i]
        THEN MergeKeys(DropColumn(semantic, "carbon_value"),
                       Project(lookup.rows, {"LULC", "carbon_value"}),
                       {"LULC"}, [carbon_value |-> NaN], Len(semantic))
        ELSE semantic

\* the crosswalk join of the other variants
CrosswalkJoin(df) == MergeKeys(df, Crosswalk, {"LULC"}, NoCrosswalk, Len(df))

\* the join on GLC2000, REGION, GEZ_TERM and FRONTIER
SemanticJoin(df, lookup) ==
    MergeKeys(df, Project(lookup.rows, UpperColumns),
              {"GLC2000", "REGION", "GEZ_TERM", "FRONTIER"},
              [CARBON_VALUE |-> NaN], Len(df))

ZeroCodes == {13, 17}

\* the codes of the zero mask: [13, 17] in core_with_comments.py,
\* [8, 9, 13, 17] in core_that_works.py
ZeroCodesOf(var) ==
    IF var = "core_that_works" THEN SavannaCodes \cup ZeroCodes ELSE ZeroCodes

\* step 8 of core_with_comments.py and core_that_works.py: savanna rows show
\* their LULC_CLASS as GLC2000, and the rows of Water zones and of the codes
\* of the zero mask get CARBON_VALUE = 0
FixConditions(var, df) ==
    [i \in 1..Len(df) |->
        LET r == IF df[i].LULC \in SavannaCodes
                 THEN [df[i] EXCEPT !.GLC2000 = df[i].LULC_CLASS]
                 ELSE df[i]
        IN  IF r.GEZ_TERM = "Water" \/ r.LULC \in ZeroCodesOf(var)
            THEN [r EXCEPT !.CARBON_VALUE = Rat(0)]
            ELSE r]

LookupKeyError(var) ==
    IF var = "core" THEN "KeyError: ['LULC', 'carbon_value'] not in index"
    ELSE "KeyError: 'GLC2000'"

JoinLookup ==
    /\ pc = "join_lookup"
    /\ IF variant = "core"
       THEN IF LowerColumns \subseteq lut.columns
            THEN /\ df_out' = CoreLookupJoin(df_out, lut)
                 /\ pc' = "fallback"
                 /\ UNCHANGED error
            ELSE /\ pc' = "failed"
                 /\ error' = LookupKeyError(variant)
                 /\ UNCHANGED df_out
       ELSE IF UpperColumns \subseteq lut.columns
            THEN /\ df_out' =
                      IF variant \in {"core_with_comments", "core_that_works"}
                      THEN FixConditions(variant,
                                         SemanticJoin(CrosswalkJoin(df_out), lut))
                      ELSE SemanticJoin(CrosswalkJoin(df_out), lut)
                 /\ pc' = "fallback"
                 /\ UNCHANGED error
            ELSE /\ pc' = "failed"
                 /\ error' = LookupKeyError(variant)
                 /\ UNCHANGED df_out
    /\ UNCHANGED <<geo, files, variant, lulc_arr, cz_raster, config, method, invest,
                   full, expert, warnings, written>>

\* "CARBON_VALUE" in df.columns, for a table with at least one row
HasColumn(df, col) == \A i \in 1..Len(df) : col \in DOMAIN df[i]

RulesKeyError == "KeyError: Expected column 'CARBON_VALUE' not found in dataframe."

\* abs(lulc_transform.a * lulc_transform.e) / 10_000.0
PixelAreaHa(t) == FDiv(Rat(Abs(t[1] * t[2])), Rat(10000))

TotalCarbon_NoArea(row, base_col, area) == FMul(Rat(row.Count), row[base_col])

\* df_out["Count"] * df_out[base_col] * pixel_area_ha, for one row
TotalCarbon(row, base_col, area) ==
    FMul(FMul(Rat(row.Count), row[base_col]), area)

\* df_out["TOTAL_CARBON"] = ...
AddTotalCarbon(df, base_col, area) ==
    [i \in 1..Len(df) |->
        SetCol(df[i], "TOTAL_CARBON", TotalCarbon(df[i], base_col, area))]

\* steps "Apply fallback rules" and "Calculate Total Carbon (Mass)": every
\* variant calls apply_fallback_rules, which raises when the table has no
\* CARBON_VALUE column; the two later variants then add TOTAL_CARBON
FallbackRules ==
    /\ pc = "fallback"
    /\ IF ~HasColumn(df_out, "CARBON_VALUE")
       THEN /\ pc' = "failed"
            /\ error' = RulesKeyError
            /\ UNCHANGED df_out
       ELSE /\ UNCHANGED error
            /\ IF variant \in {"core_after_gemini", "core_gemini_works"}
               THEN /\ df_out' = AddTotalCarbon(
                                    apply_fallback_rules(df_out, config),
                                    "CARBON_VALUE_ADJ",
                                    PixelAreaHa(lulc_transform))
                    /\ pc' = "paint"
               ELSE /\ df_out' = apply_fallback_rules(df_out, config)
                    /\ pc' = "overlay"
    /\ UNCHANGED <<geo, files, variant, lulc_arr, cz_raster, config, method, invest,
                   full, expert, warnings, written>>

GroupCols == {"LULC", "LULC_CLASS", "GLC2000", "REGION", "GEZ_TERM", "FRONTIER"}

RECURSIVE GroupCount(_, _, _)
\* .groupby(group_cols, dropna=False).agg(Count=("Count", "sum")), for the
\* group of row r: the sum of Count over the first i rows of df in r's group
GroupCount(df, r, i) ==
    IF i = 0 THEN 0
    ELSE GroupCount(df, r, i - 1) +
         (IF KeyMatch(r, df[i], GroupCols) THEN df[i].Count ELSE 0)

\* df_overlay: every group with its summed Count, joined to the distinct
\* (group, value) combinations of df_out, and TOTAL_CARBON = Count *
\* pixel_area_ha * CARBON_VALUE
OverlayTable(df, base_col, area) ==
    {[LULC |-> df[i].LULC, LULC_CLASS |-> df[i].LULC_CLASS,
      GLC2000 |-> df[i].GLC2000, REGION |-> df[i].REGION,
      GEZ_TERM |-> df[i].GEZ_TERM, FRONTIER |-> df[i].FRONTIER,
      Count |-> GroupCount(df, df[i], Len(df)),
      CARBON_VALUE |-> df[i][base_col],
      TOTAL_CARBON |-> FMul(FMul(Rat(GroupCount(df, df[i], Len(df))), area),
                            df[i][base_col])] : i \in 1..Len(df)}

\* step "Export overlay table" of core_with_comments.py
ExportOverlay ==
    /\ pc = "overlay"
    /\ df_overlay' = OverlayTable(df_out, "CARBON_VALUE_ADJ",
                                  PixelAreaHa(lulc_transform))
    /\ files' = files \cup {"overlay_counts"}
    /\ pc' = "aggregate"
    /\ UNCHANGED <<variant, lulc_arr, cz_raster, df_out, config, method, invest,
                   full, expert, warnings, error, written, gdf_zones,
                   gdf_boundary, gdf_zones_clip, attrs, lut, lulc_transform,
                   carbon_arr, nodata, rasters, cli>>

\* the rows of df that hold the pair (l, z)
PairRows(df, l, z) == {i \in 1..Len(df) : df[i].LULC = l /\ df[i].CZ_ID = z}

DictValue_ClassCoefficient(df, base_col, l, z) ==
    IF Lower(method) = "dominant"
    THEN df[IdxMax(df, l)][base_col]
    ELSE df[CHOOSE i \in PairRows(df, l, z) : \A j \in PairRows(df, l, z) : j <= i][base_col]

\* df_out.set_index(["LULC", "CZ_ID"])[base_col].to_dict()[(l, z)]: the value
\* of the last row that holds the pair
DictValue(df, base_col, l, z) ==
    df[CHOOSE i \in PairRows(df, l, z) : \A j \in PairRows(df, l, z) : j <= i][base_col]

\* the density raster of core_after_gemini.py: zeros, then every cell of a
\* pair of the table set to the pair's value, whatever the value is
PaintOnZeros(lulc, cz, df, base_col) ==
    [c \in Cells |->
        IF notna(lulc[c]) /\ PairRows(df, AsInt(lulc[c]), cz[c]) # {}
        THEN DictValue(df, base_col, AsInt(lulc[c]), cz[c])
        ELSE Rat(0)]

\* the density raster of core_gemini_works.py: NaN, then every cell of a pair
\* whose value is not NaN set to the value
PaintOnNaN(lulc, cz, df, base_col) ==
    [c \in Cells |->
        IF /\ notna(lulc[c]) /\ PairRows(df, AsInt(lulc[c]), cz[c]) # {}
           /\ notna(DictValue(df, base_col, AsInt(lulc[c]), cz[c]))
        THEN DictValue(df, base_col, AsInt(lulc[c]), cz[c])
        ELSE NaN]

\* step "Generate Carbon Density Raster": core_gemini_works.py then writes
\* the table and returns, core_after_gemini.py goes on to the aggregator
Paint ==
    /\ pc = "paint"
    /\ IF variant = "core_gemini_works"
       THEN /\ carbon_arr' = PaintOnNaN(lulc_arr, cz_raster, df_out, "CARBON_VALUE_ADJ")
            /\ nodata' = NaN
            /\ files' = files \cup {"carbon_density", "out"}
            /\ pc' = "done"
       ELSE /\ carbon_arr' = PaintOnZeros(lulc_arr, cz_raster, df_out, "CARBON_VALUE_ADJ")
            /\ nodata' = Rat(0)
            /\ files' = files \cup {"carbon_density"}
            /\ pc' = "aggregate"
    /\ UNCHANGED <<variant, lulc_arr, cz_raster, df_out, config, method, invest,
                   full, expert, warnings, error, written, gdf_zones,
                   gdf_boundary, gdf_zones_clip, attrs, lut, lulc_transform,
                   rasters, df_overlay, cli>>

NextCompute ==
    \/ ClipZones \/ Rasterize \/ CrossTab \/ JoinAttrs \/ JoinLookup
    \/ FallbackRules \/ ExportOverlay \/ Paint
    \/ Aggregate \/ FillDefaults \/ ExpertOverride \/ WriteOutputs

----------------------------------------------------------------------------
(* The inputs of compute().                                                *)

\* the codes of the grids: a forest class, a savanna class and the no-data
\* value of the raster, which src.read(1) returns unmasked
GridValues == {Rat(1), Rat(8), Rat(NoDataSentinel)}

Forest0 == <<1, "Africa", "Tropical rainforest", Rat(120)>>
Forest1 == <<1, "Africa", "Tropical dry forest", Rat(200)>>
Savanna0 == <<8, "Africa", "Tropical rainforest", Rat(50)>>
Asia0 == <<1, "Asia", "Tropical rainforest", Rat(120)>>
Asia1 == <<1, "Asia", "Tropical dry forest", Rat(200)>>

\* lookup files whose rows have pairwise different keys
Lookups ==
    {LookupFile(UpperColumns, es) :
        es \in {<<>>, <<Forest0>>, <<Forest0, Forest1>>, <<Forest0, Savanna0>>}}
    \cup {LookupFile(LowerColumns, es) : es \in {<<Forest0>>, <<Asia0, Asia1>>}}

\* cells 1..a outside every polygon, a+1..b in the first, the rest in the second
Strips(a, b) == [c \in Cells |-> IF c <= a THEN 0 ELSE IF c <= b THEN 1 ELSE 2]

\* compute() has read its inputs and has not yet clipped the zones
ComputeStart ==
    /\ pc = "clip"
    /\ cz_raster = <<>> /\ df_out = <<>>
    /\ config = DefaultConfig
    /\ invest = <<>> /\ full = <<>> /\ written = <<>>
    /\ warnings = {}
    /\ error = "none"
    /\ gdf_zones_clip = <<>> /\ attrs = <<>>
    /\ carbon_arr = <<>> /\ nodata = NaN
    /\ rasters = <<>>
    /\ df_overlay = {}
    /\ files = {}
    /\ cli = NoCli

\* runs that differ in the grid, the lookup, the method and the pixel size,
\* over zone collections that lie inside the boundary
InitCompute ==
    /\ ComputeStart
    /\ variant \in PipelineVariants
    /\ lulc_arr \in [Cells -> GridValues]
    /\ \E a \in 0..1 : \E b \in a..NumCells :
          gdf_zones = ZoneCollection(Strips(a, b))
    /\ gdf_boundary = Cells
    /\ lut \in Lookups
    /\ \/ lulc_transform = <<100, -100>> /\ method \in {"dominant", "weighted"}
       \/ lulc_transform = <<50, -50>> /\ method = "dominant"
    /\ expert = NoExpert

SpecCompute == InitCompute /\ [][NextCompute]_vars

\* the boundaries: everything, everything but one cell, nothing
Boundaries == {Cells, {}} \cup {Cells \ {c} : c \in Cells}

\* runs that differ in the zone collection and the boundary, over a grid of
\* forest cells
InitZones ==
    /\ ComputeStart
    /\ variant \in PipelineVariants
    /\ lulc_arr = [c \in Cells |-> Rat(1)]
    /\ \E layout \in [Cells -> 0..NumPolygons] :
          gdf_zones = ZoneCollection(layout)
    /\ gdf_boundary \in Boundaries
    /\ lut \in {LookupFile(UpperColumns, <<Forest0>>),
                LookupFile(LowerColumns, <<Forest0>>)}
    /\ lulc_transform = <<100, -100>>
    /\ method = "weighted"
    /\ expert = NoExpert

SpecZones == InitZones /\ [][NextCompute]_vars

----------------------------------------------------------------------------
(* Two runs of compute() on the same grid, zones and lookup: when the      *)
(* first has ended, the second starts with another method or another       *)
(* expert file.                                                            *)

ForestOverride == [present |-> TRUE, key_col |-> "lucode",
                   val_col |-> "c_above_override", rows |-> <<<<1, Rat(999)>>>>]

Rerun ==
    /\ pc \in {"done", "failed"}
    /\ rasters = <<>>
    /\ rasters' = <<[arr |-> carbon_arr, nodata |-> nodata]>>
    /\ method' \in Methods
    /\ expert' \in {NoExpert, ForestOverride}
    /\ pc' = "clip"
    /\ cz_raster' = <<>> /\ df_out' = <<>>
    /\ invest' = <<>> /\ full' = <<>> /\ written' = <<>>
    /\ warnings' = {}
    /\ error' = "none"
    /\ gdf_zones_clip' = <<>> /\ attrs' = <<>>
    /\ carbon_arr' = <<>> /\ nodata' = NaN
    /\ df_overlay' = {}
    /\ files' = {}
    /\ UNCHANGED <<variant, lulc_arr, config, gdf_zones, gdf_boundary, lut,
                   lulc_transform, cli>>

InitTwoRuns ==
    /\ ComputeStart
    /\ variant \in PipelineVariants
    /\ lulc_arr \in [Cells -> GridValues]
    /\ \E b \in 0..NumCells : gdf_zones = ZoneCollection(Strips(0, b))
    /\ gdf_boundary = Cells
    /\ lut = LookupFile(UpperColumns, <<Forest0, Forest1>>)
    /\ lulc_transform = <<100, -100>>
    /\ method = "dominant"
    /\ expert = NoExpert

NextTwoRuns == NextCompute \/ Rerun

SpecTwoRuns == InitTwoRuns /\ [][NextTwoRuns]_vars

----------------------------------------------------------------------------
(* The density raster.                                                     *)

Painted == carbon_arr # <<>>

\* the rows of the coefficient table for the pair cell c holds
CellRows(c) ==
    IF isna(lulc_arr[c]) THEN {}
    ELSE PairRows(df_out, AsInt(lulc_arr[c]), cz_raster[c])

\* C11: in the density raster every cell whose (land-cover code, zone id)
\* pair has a row with a present adjusted value holds that value, and every
\* other cell holds the no-data value declared for the raster.
C11_DensityCells ==
    Painted =>
        \A c \in Cells :
            IF \E i \in CellRows(c) : notna(df_out[i].CARBON_VALUE_ADJ)
            THEN \E i \in CellRows(c) :
                    /\ notna(df_out[i].CARBON_VALUE_ADJ)
                    /\ carbon_arr[c] = df_out[i].CARBON_VALUE_ADJ
            ELSE carbon_arr[c] = nodata

\* C12: the density raster does not depend on the aggregation method or on
\* the expert override collection: the second of two runs on the same grid,
\* zones and lookup ends with the raster and the no-data value of the first.
C12_RasterIndependent ==
    (rasters # <<>> /\ pc \in {"done", "failed"}) =>
        /\ carbon_arr = rasters[1].arr
        /\ nodata = rasters[1].nodata

\* a second run with the weighted method and an expert file, on a grid
\* whose forest cells lie in two zones with different values
C12_Witness ==
    /\ rasters # <<>> /\ pc = "done"
    /\ Lower(method) = "weighted" /\ expert.present
    /\ Painted
    /\ \E c, d \in Cells :
          /\ lulc_arr[c] = lulc_arr[d]
          /\ notna(carbon_arr[c]) /\ notna(carbon_arr[d])
          /\ carbon_arr[c] # carbon_arr[d]
          /\ carbon_arr[c] # Rat(0) /\ carbon_arr[d] # Rat(0)
    /\ written # <<>> /\ written[1].c_above = Rat(999)

----------------------------------------------------------------------------
(* The overlay: validity of the counted cells, zone ids, empty clips.      *)

\* C13: no grid cell that holds the no-data sentinel, a code at or above the
\* invalid threshold (255) or a code outside the supported class range is
\* counted in any cross-tab row, even when it lies inside a zone.
C13_InvalidNeverCounted ==
    pc = "join_attrs" =>
        \A i \in 1..Len(df_out) :
            df_out[i].Count > 0 =>
                /\ df_out[i].LULC < NoDataSentinel
                /\ df_out[i].LULC \in 1..NumClasses

\* C14: every polygon of the clipped collection is burned with its position
\* in the clipped collection + 1, so the ids in the raster are exactly 1..n,
\* and the zone attribute table numbers the polygons the same way, never 0.
C14_ZoneIds ==
    /\ cz_raster # <<>> =>
          /\ \A k \in 1..Len(gdf_zones_clip) :
                \A c \in gdf_zones_clip[k].geometry : cz_raster[c] = k
          /\ {cz_raster[c] : c \in Cells} \ {0} = 1..Len(gdf_zones_clip)
    /\ \A k \in 1..Len(attrs) : attrs[k].CZ_ID = k

\* C15: when the clipped zone collection is empty compute does not fail: the
\* zone-id grid is all zero, the cross-tab is empty, and the 17-row table is
\* written with 0.0 for every code.
C15_EmptyClipCompletes ==
    (pc # "clip" /\ gdf_zones_clip = <<>>) =>
        /\ pc # "failed" /\ error = "none"
        /\ \A c \in DOMAIN cz_raster : cz_raster[c] = 0
        /\ df_out = <<>>
        /\ pc = "done" =>
              /\ Len(written) = NumClasses
              /\ \A i \in 1..Len(written) :
                    written[i].lucode = i /\ written[i].c_above = Rat(0)

\* C19: the zone attributes joined to a cross-tab row with zone id k are
\* those of the polygon that was burned into the zone-id grid with id k.
C19_AttrsOfBurnedPolygon ==
    attrs # <<>> =>
        \A i \in 1..Len(df_out) : \A c \in Cells :
            cz_raster[c] = df_out[i].CZ_ID =>
                \A k \in 1..Len(gdf_zones_clip) :
                    c \in gdf_zones_clip[k].geometry =>
                        /\ df_out[i].REGION = gdf_zones_clip[k].REGION
                        /\ df_out[i].GEZ_TERM = gdf_zones_clip[k].GEZ_TERM
                        /\ df_out[i].FRONTIER = gdf_zones_clip[k].FRONTIER

----------------------------------------------------------------------------
(* The attribute resolver, the rule tags and the carbon mass.              *)

\* the lookup has the columns the variant's join reads
LookupReadable ==
    IF variant = "core" THEN LowerColumns \subseteq lut.columns
    ELSE UpperColumns \subseteq lut.columns

\* no row of the lookup has the four keys of the table row
Unmatched(row) ==
    \A j \in 1..Len(lut.rows) :
        ~ /\ lut.rows[j].GLC2000 = GLC2000Of(row.LULC)
          /\ lut.rows[j].REGION = row.REGION
          /\ lut.rows[j].GEZ_TERM = row.GEZ_TERM
          /\ lut.rows[j].FRONTIER = row.FRONTIER

\* C18: a join miss is never an error: with a coefficient lookup supplied,
\* compute runs the lookup join, the fallback rule engine and the aggregator
\* without raising, whatever the mix of matched and unmatched rows, and the
\* unmatched rows reach the fallback engine with an absent value.
C18_JoinMissNoError ==
    LookupReadable =>
        /\ pc # "failed" /\ error = "none"
        /\ (pc = "fallback" /\ variant # "core") =>
              \A i \in 1..Len(df_out) :
                  Unmatched(df_out[i]) => isna(df_out[i].CARBON_VALUE)

\* C20: the joins of the attribute resolver, the degraded join included,
\* keep the row set: each of them leaves exactly one row per cross-tab row,
\* in the same order, with its code, zone id and count.
C20_JoinsKeepRows ==
    [][(pc \in {"join_attrs", "join_lookup"} /\ pc' # "failed") =>
        /\ Len(df_out') = Len(df_out)
        /\ \A i \in 1..Len(df_out) :
              /\ i \in DOMAIN df_out'
              /\ df_out'[i].LULC = df_out[i].LULC
              /\ df_out'[i].CZ_ID = df_out[i].CZ_ID
              /\ df_out'[i].Count = df_out[i].Count]_vars

Ruled == df_out # <<>> /\ HasColumn(df_out, "rule_applied")

RuleTags == {"none", SavannaTag(DefaultConfig.savanna_percent_of_forest),
             "wetland_woody=forest", "wetland_to_shrub"}

RECURSIVE PresentSum(_, _, _)
\* sum of Count * adjusted value over the rows of code c, among the first i,
\* whose adjusted value is present
PresentSum(df, c, i) ==
    IF i = 0 THEN Rat(0)
    ELSE IF df[i].LULC = c /\ notna(df[i].CARBON_VALUE_ADJ)
         THEN FAdd(PresentSum(df, c, i - 1),
                   FMul(Rat(df[i].Count), df[i].CARBON_VALUE_ADJ))
         ELSE PresentSum(df, c, i - 1)

\* the weighted mean of code c over the rows whose adjusted value is present,
\* 0.0 when there is none
MeanOverPresent(df, c) ==
    IF PresentCount(df, c, Len(df)) = 0 THEN Rat(0)
    ELSE FDiv(PresentSum(df, c, Len(df)), Rat(PresentCount(df, c, Len(df))))

MassOf(count, value, area) ==
    IF isna(value) THEN NaN
    ELSE Norm(count * value[1] * area[1], value[2] * area[2])

RECURSIVE GroupProductSum(_, _, _, _)
\* sum of Count * adjusted value * area over the rows of df_out, among the
\* first i, that have the attributes of the overlay row o
GroupProductSum(df, o, area, i) ==
    IF i = 0 THEN Rat(0)
    ELSE IF KeyMatch(o, df[i], GroupCols)
         THEN FAdd(GroupProductSum(df, o, area, i - 1),
                   MassOf(df[i].Count, df[i].CARBON_VALUE_ADJ, area))
         ELSE GroupProductSum(df, o, area, i - 1)

RECURSIVE ProductSum(_, _, _, _)
\* sum of Count * adjusted value * area (area = <<n, d>>) over the rows of
\* code c among the first i, NaN products skipped
ProductSum(df, c, area, i) ==
    IF i = 0 THEN Rat(0)
    ELSE IF df[i].LULC = c /\ notna(df[i].CARBON_VALUE_ADJ)
         THEN FAdd(ProductSum(df, c, area, i - 1),
                   MassOf(df[i].Count, df[i].CARBON_VALUE_ADJ, area))
         ELSE ProductSum(df, c, area, i - 1)

\* the pixel area in hectares: |a * e| square metres over 10 000
AreaOf(t) == Norm(Abs(t[1] * t[2]), 10000)

\* C17: for every coefficient row, total carbon mass = pixel_count *
\* adjusted value * pixel_area_ha, with one pixel_area_ha per run, and the
\* total of a land-cover class is the sum of this product over its rows.
C17_TotalCarbon ==
    /\ (df_out # <<>> /\ HasColumn(df_out, "TOTAL_CARBON")) =>
          /\ \A i \in 1..Len(df_out) :
                df_out[i].TOTAL_CARBON =
                    MassOf(df_out[i].Count, df_out[i].CARBON_VALUE_ADJ,
                           AreaOf(lulc_transform))
          /\ \A c \in LulcCodes(df_out) :
                LET rows == SelectSeq(df_out, LAMBDA r : r.LULC = c)
                IN  SumOver(rows, "TOTAL_CARBON", Len(rows)) =
                        ProductSum(df_out, c, AreaOf(lulc_transform), Len(df_out))
    /\ \A o \in df_overlay :
          o.TOTAL_CARBON =
              GroupProductSum(df_out, o, AreaOf(lulc_transform), Len(df_out))

\* 2 pixels at 120.0 with 1.0 ha pixels give 240.0, and with one more pixel
\* of the class at 200.0 in another zone the class totals 440.0
C17_Witness ==
    /\ HasColumn(df_out, "TOTAL_CARBON") /\ lulc_transform = <<100, -100>>
    /\ \E i, j \in 1..Len(df_out) :
          /\ df_out[i].LULC = df_out[j].LULC /\ i # j
          /\ df_out[i].Count = 2 /\ df_out[i].CARBON_VALUE_ADJ = Rat(120)
          /\ df_out[i].TOTAL_CARBON = Rat(240)
          /\ df_out[j].TOTAL_CARBON = Rat(200)
          /\ LET rows == SelectSeq(df_out, LAMBDA r : r.LULC = df_out[i].LULC)
             IN  SumOver(rows, "TOTAL_CARBON", Len(rows)) = Rat(440)

----------------------------------------------------------------------------
(* The rows of the cross-tab.                                              *)

\* C21: every cross-tab row has pixel_count >= 1: a (code, zone) pair that no
\* valid cell holds produces no row.
C21_NoZeroCountRow ==
    pc = "join_attrs" =>
        \A i \in 1..Len(df_out) :
            /\ df_out[i].Count >= 1
            /\ \E c \in MaskedCells(lulc_arr, cz_raster) :
                  AsInt(lulc_arr[c]) = df_out[i].LULC /\ cz_raster[c] = df_out[i].CZ_ID

----------------------------------------------------------------------------
(* The lookup join of core.py on its own: compute() of core.py from its    *)
(* inputs to the call of apply_fallback_rules, over lookup files with the  *)
(* headers core.py reads.                                                  *)

\* a lookup file with a CODE column next to the columns core.py joins on:
\* rows es = <<code, region, gez_term, value, CODE>>
LookupFileWithCode(es) ==
    [columns |-> LowerColumns \cup {"CODE"},
     rows |-> [i \in 1..Len(es) |->
                 [LULC |-> es[i][1], REGION |-> es[i][2],
                  GEZ_TERM |-> es[i][3], FRONTIER |-> "Non-frontier",
                  carbon_value |-> es[i][4], CODE |-> es[i][5]]]]

Savanna1 == <<8, "Africa", "Tropical dry forest", Rat(50)>>

\* lookups that match some rows, every row or no row of the table
JoinLookups ==
    {LookupFile(LowerColumns, es) :
        es \in {<<Forest1>>, <<Forest0, Forest1>>, <<Forest1, Savanna1>>, <<Asia0>>}}
    \cup {LookupFileWithCode(es) :
            es \in {<<<<1, "Asia", "Tropical rainforest", Rat(120), "7">>>>,
                    <<<<1, "Asia", "Tropical rainforest", Rat(120), "1">>,
                      <<8, "Asia", "Tropical rainforest", Rat(50), "0">>>>}}

InitJoin ==
    /\ ComputeStart
    /\ variant = "core"
    /\ lulc_arr \in [Cells -> GridValues]
    /\ \E a \in 0..1 : \E b \in a..NumCells :
          gdf_zones = ZoneCollection(Strips(a, b))
    /\ gdf_boundary = Cells
    /\ lut \in JoinLookups
    /\ lulc_transform = <<100, -100>>
    /\ method = "weighted"
    /\ expert = NoExpert

NextJoin ==
    \/ ClipZones \/ Rasterize \/ CrossTab \/ JoinAttrs \/ JoinLookup
    \/ FallbackRules

SpecJoin == InitJoin /\ [][NextJoin]_vars

\* the lookup entries that have the four keys of the table row
PrimaryMatches(row) ==
    {j \in 1..Len(lut.rows) :
        /\ lut.rows[j].LULC = row.LULC
        /\ lut.rows[j].REGION = row.REGION
        /\ lut.rows[j].GEZ_TERM = row.GEZ_TERM
        /\ lut.rows[j].FRONTIER = row.FRONTIER}

\* the outcome of the exact 4-key join for the row: the value of its entry,
\* or absent
PrimaryValue(row) ==
    IF PrimaryMatches(row) = {} THEN NaN
    ELSE lut.rows[CHOOSE j \in PrimaryMatches(row) : TRUE].carbon_value

CoreJoinStep == pc = "join_lookup" /\ variant = "core" /\ pc' = "fallback"

\* C22: the degraded lookup join runs only when the exact 4-key join matched
\* no row at all: whenever at least one row matched, every row keeps the
\* outcome of the 4-key join, its matched value or absent.
C22_DegradedOnlyOnTotalMiss ==
    [][(CoreJoinStep /\ \E i \in 1..Len(df_out) : PrimaryMatches(df_out[i]) # {}) =>
        /\ Len(df_out') = Len(df_out)
        /\ \A i \in 1..Len(df_out) :
              /\ i \in DOMAIN df_out'
              /\ df_out'[i].LULC = df_out[i].LULC
              /\ df_out'[i].CZ_ID = df_out[i].CZ_ID
              /\ df_out'[i].carbon_value = PrimaryValue(df_out[i])]_vars

\* a table in which one row matched and another did not, although the lookup
\* has an entry for the code of the unmatched row
C22_Witness ==
    /\ pc = "fallback" /\ variant = "core"
    /\ \E i, j \in 1..Len(df_out) :
          /\ PrimaryMatches(df_out[i]) # {}
          /\ df_out[i].carbon_value = Rat(200)
          /\ PrimaryMatches(df_out[j]) = {}
          /\ isna(df_out[j].carbon_value)
          /\ \E k \in 1..Len(lut.rows) : lut.rows[k].LULC = df_out[j].LULC

\* the lookup entries that carry the identifier code of the table row
CodeMatches(row) ==
    {j \in 1..Len(lut.rows) : lut.rows[j].CODE = row.CODE}

\* C23: when the degraded lookup join runs, it is keyed on the identifier
\* code that the zone attributes and the lookup share (CODE): each row gets
\* the value of the lookup entry with its identifier code, or absent.
C23_DegradedKeyedOnCode ==
    [][(/\ CoreJoinStep
        /\ "CODE" \in lut.columns
        /\ df_out # <<>>
        /\ \A i \in 1..Len(df_out) : PrimaryMatches(df_out[i]) = {}) =>
        /\ Len(df_out') = Len(df_out)
        /\ \A i \in 1..Len(df_out) :
              /\ i \in DOMAIN df_out'
              /\ IF CodeMatches(df_out[i]) = {}
                 THEN isna(df_out'[i].carbon_value)
                 ELSE \E j \in CodeMatches(df_out[i]) :
                         df_out'[i].carbon_value = lut.rows[j].carbon_value]_vars

----------------------------------------------------------------------------
(* The order and the preconditions of the fallback rules.                  *)

RulesStep == pc' \in {"rules_done", "rules_twice"}

\* C25: the wetland rules apply in order: a wetland row with absent value
\* gets the forest reference and the tag "wetland_woody=forest" when rule 2
\* is enabled and a forest reference exists, and the shrub reference and the
\* tag "wetland_to_shrub" only if rule 2 left it absent.
C25_WetlandOrder ==
    [][RulesStep =>
        \A i \in 1..Len(df_out) :
            (df_out[i].LULC = WetlandCode /\ isna(df_out[i].CARBON_VALUE)) =>
                IF /\ config.wetland_woody_equals_forest
                   /\ notna(RefValue(df_out, ForestCodes))
                THEN /\ df_out'[i].CARBON_VALUE_ADJ = RefValue(df_out, ForestCodes)
                     /\ df_out'[i].rule_applied = "wetland_woody=forest"
                ELSE IF /\ config.marsh_equals_shrub
                        /\ notna(RefValue(df_out, ShrubCodes))
                THEN /\ df_out'[i].CARBON_VALUE_ADJ = RefValue(df_out, ShrubCodes)
                     /\ df_out'[i].rule_applied = "wetland_to_shrub"
                ELSE /\ isna(df_out'[i].CARBON_VALUE_ADJ)
                     /\ df_out'[i].rule_applied = "none"]_vars

\* rules 2 and 3 both enabled, both references present and different: the
\* wetland row holds the forest value
C25_Witness ==
    /\ pc = "rules_done"
    /\ config.wetland_woody_equals_forest /\ config.marsh_equals_shrub
    /\ notna(RefValue(df_out, ForestCodes)) /\ notna(RefValue(df_out, ShrubCodes))
    /\ RefValue(df_out, ForestCodes) # RefValue(df_out, ShrubCodes)
    /\ \E i \in 1..Len(df_out) :
          /\ df_out[i].LULC = WetlandCode /\ isna(df_out[i].CARBON_VALUE)
          /\ df_out[i].CARBON_VALUE_ADJ = RefValue(df_out, ForestCodes)
          /\ df_out[i].rule_applied = "wetland_woody=forest"

\* no row of the code group has a present raw value
NoReference(df, codes) ==
    \A i \in 1..Len(df) : df[i].LULC \in codes => isna(df[i].CARBON_VALUE)

ForestTags == {SavannaTag(DefaultConfig.savanna_percent_of_forest),
               "wetland_woody=forest"}

\* C26: a rule whose reference data is unavailable changes nothing: with no
\* present forest value rules 1 and 2 fill and tag no row, with no present
\* shrub value rule 3 fills and tags no row, and no row is ever tagged for,
\* or filled with, an undefined reference value.
C26_NoReferenceNoChange ==
    [][RulesStep =>
        /\ Len(df_out') = Len(df_out)
        /\ \A i \in 1..Len(df_out) :
              /\ NoReference(df_out, ForestCodes) =>
                    /\ df_out'[i].rule_applied \notin ForestTags
                    /\ df_out[i].LULC # WetlandCode =>
                          /\ df_out'[i].CARBON_VALUE_ADJ = df_out[i].CARBON_VALUE
                          /\ df_out'[i].rule_applied = "none"
              /\ NoReference(df_out, ShrubCodes) =>
                    /\ df_out'[i].rule_applied # "wetland_to_shrub"
                    /\ df_out[i].LULC \notin SavannaCodes \cup {WetlandCode} =>
                          /\ df_out'[i].CARBON_VALUE_ADJ = df_out[i].CARBON_VALUE
                          /\ df_out'[i].rule_applied = "none"
              /\ (NoReference(df_out, ForestCodes) /\ NoReference(df_out, ShrubCodes)) =>
                    /\ df_out'[i].CARBON_VALUE_ADJ = df_out[i].CARBON_VALUE
                    /\ df_out'[i].rule_applied = "none"
              /\ df_out'[i].rule_applied # "none" =>
                    notna(df_out'[i].CARBON_VALUE_ADJ)]_vars

\* a forest row without a value, and a savanna row and a wetland row that
\* stay absent and untagged although every rule is enabled
C26_Witness ==
    /\ pc = "rules_done"
    /\ config.has_savanna /\ config.wetland_woody_equals_forest
    /\ config.marsh_equals_shrub
    /\ \E i, j, k \in 1..Len(df_out) :
          /\ df_out[i].LULC \in ForestCodes /\ isna(df_out[i].CARBON_VALUE)
          /\ df_out[j].LULC \in SavannaCodes /\ isna(df_out[j].CARBON_VALUE_ADJ)
          /\ df_out[j].rule_applied = "none"
          /\ df_out[k].LULC = WetlandCode /\ isna(df_out[k].CARBON_VALUE_ADJ)
          /\ df_out[k].rule_applied = "none"

----------------------------------------------------------------------------
(* The zero mask and the rules in the full pipeline: compute() of          *)
(* core_with_comments.py and of core_that_works.py over grids with forest, *)
(* savanna, wetland and built-up cells and zones of rainforest and water.  *)

FixVariants == {"core_with_comments", "core_that_works"}

FixGridValues == {Rat(1), Rat(8), Rat(11), Rat(13)}

Wetland0 == <<11, "Africa", "Tropical rainforest", Rat(30)>>
Urban0 == <<13, "Africa", "Tropical rainforest", Rat(5)>>
ForestWater == <<1, "Africa", "Water", Rat(90)>>

FixLookups ==
    {LookupFile(UpperColumns, es) :
        es \in {<<>>, <<Forest0>>, <<Forest0, Wetland0, Urban0, ForestWater>>}}

\* every cell lies in the first polygon (rainforest) or in the third (water)
FixLayouts == [Cells -> {1, 3}]

\* rules_cfg of core_with_comments.py with the flag compute() was given
ForceConfigs ==
    {[DefaultConfig EXCEPT !.force_wetland_overrides = f] : f \in BOOLEAN}

\* compute() has read its inputs; core_that_works.py calls
\* apply_fallback_rules without a configuration
InitFix ==
    /\ pc = "clip"
    /\ cz_raster = <<>> /\ df_out = <<>>
    /\ invest = <<>> /\ full = <<>> /\ written = <<>>
    /\ warnings = {}
    /\ error = "none"
    /\ gdf_zones_clip = <<>> /\ attrs = <<>>
    /\ carbon_arr = <<>> /\ nodata = NaN
    /\ rasters = <<>>
    /\ df_overlay = {}
    /\ files = {}
    /\ cli = NoCli
    /\ variant \in FixVariants
    /\ config \in IF variant = "core_that_works" THEN {DefaultConfig}
                  ELSE ForceConfigs
    /\ lulc_arr \in [Cells -> FixGridValues]
    /\ \E layout \in FixLayouts : gdf_zones = ZoneCollection(layout)
    /\ gdf_boundary = Cells
    /\ lut \in FixLookups
    /\ lulc_transform = <<100, -100>>
    /\ method = "weighted"
    /\ expert = NoExpert

NextFix ==
    \/ ClipZones \/ Rasterize \/ CrossTab \/ JoinAttrs \/ JoinLookup
    \/ FallbackRules \/ ExportOverlay
    \/ Aggregate \/ FillDefaults \/ ExpertOverride \/ WriteOutputs

SpecFix == InitFix /\ [][NextFix]_vars

\* the lookup entries that have the class, region, zone and frontier of the row
UpperMatches(row) ==
    {j \in 1..Len(lut.rows) :
        /\ lut.rows[j].GLC2000 = GLC2000Of(row.LULC)
        /\ lut.rows[j].REGION = row.REGION
        /\ lut.rows[j].GEZ_TERM = row.GEZ_TERM
        /\ lut.rows[j].FRONTIER = row.FRONTIER}

\* what the lookup returned for the row: the value of its entry, or absent
LookupOutcome(row) ==
    IF UpperMatches(row) = {} THEN NaN
    ELSE lut.rows[CHOOSE j \in UpperMatches(row) : TRUE].CARBON_VALUE

RECURSIVE PresentRawSum(_, _, _)
\* sum of the present raw values over the rows of the codes, among the first i
PresentRawSum(df, codes, i) ==
    IF i = 0 THEN Rat(0)
    ELSE IF df[i].LULC \in codes /\ notna(df[i].CARBON_VALUE)
         THEN FAdd(PresentRawSum(df, codes, i - 1), df[i].CARBON_VALUE)
         ELSE PresentRawSum(df, codes, i - 1)

PresentRawRows(df, codes) ==
    {i \in 1..Len(df) : df[i].LULC \in codes /\ notna(df[i].CARBON_VALUE)}

\* the mean of the present raw values over the rows of the codes, one term
\* per row
RowMean(df, codes) ==
    FDiv(PresentRawSum(df, codes, Len(df)), Rat(Cardinality(PresentRawRows(df, codes))))

\* C24: savanna rule: when a forest-group row has a present raw value, every
\* savanna-group row whose value is absent, and in the full pipeline every
\* savanna row without a lookup match, gets adjusted value = forest reference
\* * savanna fraction and the tag "savanna=<pct>%_forest", the forest
\* reference being the mean of the present raw values over the forest rows.
C24_SavannaRule ==
    (Ruled /\ PresentRawRows(df_out, ForestCodes) # {}) =>
        \A i \in 1..Len(df_out) :
            (/\ df_out[i].LULC \in SavannaCodes
             /\ (isna(df_out[i].CARBON_VALUE) \/ LookupOutcome(df_out[i]) = NaN)) =>
                /\ df_out[i].CARBON_VALUE_ADJ =
                      FMul(RowMean(df_out, ForestCodes),
                           config.savanna_percent_of_forest)
                /\ df_out[i].rule_applied =
                      SavannaTag(config.savanna_percent_of_forest)

\* C27: the forced-zero rule sets the raw value to 0 for exactly the rows
\* whose code is in the designated set of the variant, whatever the lookup
\* returned, and every other row reaches the fallback rules with what the
\* lookup returned.
C27_ForcedZeroByCode ==
    (pc = "fallback" /\ variant \in FixVariants) =>
        \A i \in 1..Len(df_out) :
            IF df_out[i].LULC \in ZeroCodesOf(variant)
            THEN df_out[i].CARBON_VALUE = Rat(0)
            ELSE df_out[i].CARBON_VALUE = LookupOutcome(df_out[i])

\* C28: with force_wetland_overrides set, a wetland row gets the wetland
\* override (the forest reference, tagged) even when the lookup returned a
\* value for it; without the flag a wetland row with a present value keeps it.
C28_ForceWetland ==
    (Ruled /\ variant = "core_with_comments") =>
        \A i \in 1..Len(df_out) :
            (df_out[i].LULC = WetlandCode /\ notna(df_out[i].CARBON_VALUE)) =>
                IF config.force_wetland_overrides
                THEN PresentRawRows(df_out, ForestCodes) # {} =>
                        /\ df_out[i].CARBON_VALUE_ADJ = RowMean(df_out, ForestCodes)
                        /\ df_out[i].rule_applied = "wetland_woody=forest"
                ELSE df_out[i].CARBON_VALUE_ADJ = df_out[i].CARBON_VALUE

----------------------------------------------------------------------------
(* The method string.                                                      *)

InvalidMethodError == "ValueError: Invalid method. Use 'dominant' or 'weighted'."

ValidMethod(m) == Lower(m) \in {"dominant", "weighted"}

\* C29: a method that is neither "dominant" nor "weighted", compared
\* case-insensitively, is rejected with an error: the run never aggregates
\* nor completes, and when the error is raised no output file has been
\* written.
C29_InvalidMethodRejected ==
    (HasMethod(variant) /\ ~ValidMethod(method)) =>
        /\ pc \notin {"fill", "override", "write", "done"}
        /\ error = InvalidMethodError => files = {}

----------------------------------------------------------------------------
(* The run command of cli.py: it resolves its parameters, validates the    *)
(* three inputs and calls compute().                                       *)

InputNames == {"lulc", "carbon_zones", "boundary"}

\* the label run_validation gives each input
Label(n) ==
    IF n = "lulc" THEN "LULC raster"
    ELSE IF n = "carbon_zones" THEN "carbon_zones" ELSE "boundary"

\* a path is named after what lies there: a readable file, nothing, a file
\* of size 0; "." is the working directory
FileStates == {"ok", "missing", "empty"}

\* an option of the command: a path, or "None" when it was not given
PathOptions == FileStates \cup {"None"}

\* the YAML configuration: cfg = {} without --config, else the inputs
\* mapping of the file, in which an entry may be absent
ConfigFiles ==
    {[present |-> FALSE, inputs |-> [n \in InputNames |-> "absent"]]}
    \cup {[present |-> TRUE, inputs |-> i] :
             i \in [InputNames -> FileStates \cup {"absent"}]}

\* lulc = lulc or Path(cfg.get("inputs", {}).get("lulc", "")), followed by
\* expand_path: Path("") is Path("."), whose string is not blank
ResolvePath(opt, cfg, n) ==
    IF opt # "None" THEN opt
    ELSE IF cfg.inputs[n] = "absent" THEN "."
    ELSE cfg.inputs[n]

NotFoundMessage(n, p) == Label(n) \o " not found: " \o p
EmptyMessage(n, p) == Label(n) \o " file is empty: " \o p

\* check_file_exists inside the try of run_validation: "exists", or the text
\* of the exception; a directory exists and has a size other than 0
FileCheck(n, p) ==
    IF p = "missing" THEN NotFoundMessage(n, p)
    ELSE IF p = "empty" THEN EmptyMessage(n, p)
    ELSE "exists"

\* the text of the exception rasterio and geopandas raise on a path they
\* cannot open
OpenError(p) ==
    IF p = "missing" THEN p \o ": No such file or directory"
    ELSE "'" \o p \o "' not recognized as being in a supported file format."

\* check_crs_match inside its try: the datasets are opened in the order
\* lulc, carbon_zones, boundary
CrsCheck(paths) ==
    IF paths["lulc"] # "ok" THEN OpenError(paths["lulc"])
    ELSE IF paths["carbon_zones"] # "ok" THEN OpenError(paths["carbon_zones"])
    ELSE IF paths["boundary"] # "ok" THEN OpenError(paths["boundary"])
    ELSE "All CRS match."

\* check_required_fields inside its try
FieldCheck(paths) ==
    IF paths["carbon_zones"] # "ok" THEN OpenError(paths["carbon_zones"])
    ELSE "All required fields present."

\* run_validation: the results dictionary, keyed here by the input's name
\* instead of its label
run_validation(paths) ==
    [k \in InputNames \cup {"crs_check", "field_check"} |->
        IF k \in InputNames THEN FileCheck(k, paths[k])
        ELSE IF k = "crs_check" THEN CrsCheck(paths) ELSE FieldCheck(paths)]

\* "not found" in str(v), over the messages run_validation can return
ContainsNotFound(v) ==
    v \in {NotFoundMessage(n, p) : n \in InputNames, p \in FileStates \cup {"."}}

\* any("not found" in str(v) for v in validation.values())
ValidationFailed(validation) ==
    \E k \in DOMAIN validation : ContainsNotFound(validation[k])

\* run_validation has not returned yet
NoValidation == [k \in InputNames \cup {"crs_check", "field_check"} |-> "none"]

InitRun ==
    /\ pc = "run"
    /\ variant = "core"
    /\ lulc_arr = <<>> /\ cz_raster = <<>> /\ df_out = <<>>
    /\ config = DefaultConfig
    /\ method = "weighted"
    /\ invest = <<>> /\ full = <<>> /\ written = <<>>
    /\ expert = NoExpert
    /\ warnings = {}
    /\ error = "none"
    /\ gdf_zones = <<>> /\ gdf_boundary = {} /\ gdf_zones_clip = <<>>
    /\ attrs = <<>>
    /\ lut = NoLookup
    /\ lulc_transform = <<100, -100>>
    /\ carbon_arr = <<>> /\ nodata = NaN
    /\ rasters = <<>>
    /\ df_overlay = {}
    /\ files = {}
    /\ \E opts \in [InputNames -> PathOptions], cfg \in ConfigFiles :
          cli = [options |-> opts, cfg |-> cfg,
                 paths |-> [n \in InputNames |-> "None"],
                 validation |-> NoValidation,
                 called |-> FALSE, exit_code |-> -1]

RunFrame ==
    UNCHANGED <<variant, lulc_arr, cz_raster, df_out, config, method, invest,
                full, expert, warnings, error, written, gdf_zones,
                gdf_boundary, gdf_zones_clip, attrs, lut, lulc_transform,
                carbon_arr, nodata, rasters, df_overlay, files>>

ResolveParameters ==
    /\ pc = "run"
    /\ cli' = [cli EXCEPT !.paths =
                  [n \in InputNames |-> ResolvePath(cli.options[n], cli.cfg, n)]]
    /\ pc' = "validate"
    /\ RunFrame

ValidateInputs ==
    /\ pc = "validate"
    /\ cli' = [cli EXCEPT !.validation = run_validation(cli.paths)]
    /\ pc' = "validated"
    /\ RunFrame

\* raise typer.Exit(code=1), or the call of compute()
AbortOrCompute ==
    /\ pc = "validated"
    /\ IF ValidationFailed(cli.validation)
       THEN /\ cli' = [cli EXCEPT !.exit_code = 1]
            /\ pc' = "exit"
       ELSE /\ cli' = [cli EXCEPT !.called = TRUE]
            /\ pc' = "compute"
    /\ RunFrame

\* compute() of core.py raises on every input: on an input it cannot read,
\* else in apply_fallback_rules or in dropna (no CARBON_VALUE, no
\* carbon_value column); the exception leaves run and ends the process
\* with status 1
ComputeRaises ==
    /\ pc = "compute"
    /\ cli' = [cli EXCEPT !.exit_code = 1]
    /\ pc' = "exit"
    /\ RunFrame

NextRun == ResolveParameters \/ ValidateInputs \/ AbortOrCompute \/ ComputeRaises

SpecRun == InitRun /\ [][NextRun]_vars

\* the input was given, by an option or by the configuration
Given(n) ==
    \/ cli.options[n] # "None"
    \/ cli.cfg.inputs[n] # "absent"

\* the input was given, and its file is there and is not empty
Usable(n) == Given(n) /\ ResolvePath(cli.options[n], cli.cfg, n) = "ok"

\* C30: the run command validates before it computes: compute is called only
\* after run_validation returned, it is never called when one of the three
\* inputs is missing, empty or not given, and in those cases run exits with
\* code 1.
C30_ValidateBeforeCompute ==
    /\ cli.called =>
          /\ cli.validation # NoValidation
          /\ \A n \in InputNames : Usable(n)
    /\ (pc = "exit" /\ \E n \in InputNames : ~Usable(n)) =>
          /\ ~cli.called
          /\ cli.exit_code = 1

====
